---- MODULE Spec2Model ----
(***************************************************************************)
(* NeuralMD: embedding generation, similarity search, connection graph and *)
(* the note write paths that feed them.                                    *)
(*                                                                         *)
(* Conventions of the model                                                *)
(*  - A string is a sequence of one-character strings over {a, A, b, B}.   *)
(*  - An embedding is a record [dim, v]: dim is the length of the vector   *)
(*    the provider returned, v its direction, given by two integer         *)
(*    coordinates whose norm is an integer, so that cosine distance is an  *)
(*    exact number of hundredths.                                          *)
(*  - Similarities and thresholds are counted in hundredths (60 = 0.6).    *)
(*  - The notes table is a sequence ordered by "updatedAt", oldest first;  *)
(*    NOW() is taken to be strictly increasing from one write to the next. *)
(***************************************************************************)
EXTENDS Integers, Sequences, FiniteSets, TLC

VARIABLES
    cfg,          \* process environment: EMBEDDING_PROVIDER, OPENAI_API_KEY
    provider,     \* lib/embeddings/index.ts: the module-level provider
    modelPulled,  \* lib/embeddings/ollama.ts: the module-level flag
    notes,        \* the notes table
    req,          \* the request in flight and the await it is suspended at
    resp,         \* the response of the last completed request
    constructed,  \* the number of provider instances constructed so far
    calls,        \* the calls of lib/embeddings made side by side
    env,          \* process environment: API_AUTH_REQUIRED, INTERNAL_API_TOKEN
    apiKeys,      \* the api_keys table
    rateLimitStore, \* lib/auth: the module-level Map
    clock,        \* Date.now()
    log           \* the calls of checkRateLimit of RateCheck, and their results

\* the state of lib/auth
authVars == <<env, apiKeys, rateLimitStore, clock, log>>

vars == <<cfg, provider, modelPulled, notes, req, resp, constructed, calls,
          authVars>>

\* null / undefined is the empty sequence, a value x that is there is <<x>>
Null == <<>>

Some(x) == <<x>>

Get(o) == o[1]

-----------------------------------------------------------------------------
(* Bounds of the model *)

MaxNotes == 3      \* identifiers available to the notes table
MaxCorpus == 2     \* notes of a corpus that a search runs over
MaxStored == 1     \* notes that the write paths put in the table
MaxLimit == 2      \* largest limit / nodeLimit a request asks for
EdgeCap == 2       \* stands for the LIMIT 500 of the graph query, scaled
maxChars == 3      \* stands for OLLAMA_EMBEDDING_MAX_CHARS (24000), scaled
MaxCallers == 2    \* calls of lib/embeddings in flight side by side
SecretMin == 2     \* stands for the {8,} of the value of a secret, scaled
MaxImport == 2     \* notes of the array of an import
MaxKeys == 1       \* rows of the api_keys table
MaxClock == 3      \* the time that Date.now() gets to
MaxChecks == 4     \* calls of checkRateLimit of a run
RATE_LIMIT_WINDOW == 2  \* stands for 60 * 1000 ms, scaled
RATE_LIMIT_MAX == 2     \* stands for 100 requests per window, scaled

-----------------------------------------------------------------------------
(* Program constants *)

ColumnDim == 768   \* "embedding" vector(768)
OllamaDim == 768   \* MODEL_DIMENSIONS['nomic-embed-text']
OpenAIDim == 1536  \* MODEL_DIMENSIONS['text-embedding-3-small']
ShortSecret == 8   \* maskSecret: value.length <= 8
VisibleMax == 4    \* maskSecret: Math.min(4, ...)

-----------------------------------------------------------------------------
(* Input domains *)

Ids == 1..MaxNotes
Limits == 1..MaxLimit
Thresholds == {0, 60}
Titles == {<<"A", "b">>, <<"b">>}
Contents == {<<"B">>, <<"b", "A">>}
Queries == {<<"a">>, <<"a", "B">>}
Vecs == {<<1, 0>>, <<0, 1>>, <<3, 4>>, <<4, 3>>}
Callers == 1..MaxCallers
Configs ==
    { [provider |-> "ollama", hasKey |-> FALSE],
      [provider |-> "openai", hasKey |-> TRUE],
      [provider |-> "openai", hasKey |-> FALSE],
      [provider |-> "none",   hasKey |-> FALSE],
      [provider |-> "cohere", hasKey |-> FALSE] }

-----------------------------------------------------------------------------
(* Sequences *)

Min(a, b) == IF a < b THEN a ELSE b

Take(s, n) == SubSeq(s, 1, Min(n, Len(s)))

Reverse(s) == [i \in 1..Len(s) |-> s[Len(s) + 1 - i]]

Range(s) == {s[i] : i \in 1..Len(s)}

RECURSIVE SelectSeqBy(_, _)
\* the subsequence of s of the elements that are in the set keep
SelectSeqBy(s, keep) ==
    IF s = <<>> THEN <<>>
    ELSE IF Head(s) \in keep
         THEN <<Head(s)>> \o SelectSeqBy(Tail(s), keep)
         ELSE SelectSeqBy(Tail(s), keep)

RECURSIVE TopAscending(_, _, _)
\* ORDER BY key LIMIT k over the rows S: every list of the first k rows in
\* non-decreasing order of key, rows with equal keys coming in any order
TopAscending(S, key, k) ==
    IF S = {} \/ k = 0 THEN {<<>>}
    ELSE UNION { { <<x>> \o t : t \in TopAscending(S \ {x}, key, k - 1) } :
                 x \in {y \in S : \A z \in S : key[y] <= key[z]} }

-----------------------------------------------------------------------------
(* Strings: Prisma's { contains: q, mode: 'insensitive' } *)

Lower(c) == IF c = "A" THEN "a" ELSE IF c = "B" THEN "b" ELSE c

ToLower(s) == [i \in 1..Len(s) |-> Lower(s[i])]

Contains(s, q) ==
    \E i \in 0..(Len(s) - Len(q)) : SubSeq(s, i + 1, i + Len(q)) = q

ContainsInsensitive(s, q) == Contains(ToLower(s), ToLower(q))

-----------------------------------------------------------------------------
(* lib/secrets-detector.ts: detectSecrets *)

\* SECRET_PATTERNS, in the alphabet of the model, is the one pattern
\*   /(?:password|passwd|pwd)[\s:="']+([^\s"']{8,})/gi
\* with the letter a (of either case) for the keyword, the line feed for
\* the separators and SecretMin for the 8

\* the length of the longest run of separators (sep = TRUE) or of other
\* characters (sep = FALSE) of text that starts at index i
RECURSIVE RunOf(_, _, _)
RunOf(text, i, sep) ==
    IF i > Len(text) THEN 0
    ELSE IF (text[i] = "\n") # sep THEN 0
    ELSE 1 + RunOf(text, i + 1, sep)

\* the match of the pattern that starts at index i, if there is one; match
\* is the capture group
MatchAt(text, i) ==
    LET s == RunOf(text, i + 1, TRUE)
        v == RunOf(text, i + 1 + s, FALSE)
    IN IF Lower(text[i]) = "a" /\ s >= 1 /\ v >= SecretMin
       THEN Some([startIndex |-> i, endIndex |-> i + s + v,
                  match |-> SubSeq(text, i + 1 + s, i + s + v)])
       ELSE Null

\* while ((match = pattern.exec(content)) !== null), from lastIndex
RECURSIVE ExecAll(_, _)
ExecAll(text, lastIndex) ==
    IF lastIndex > Len(text) THEN <<>>
    ELSE IF MatchAt(text, lastIndex) # Null
    THEN <<Get(MatchAt(text, lastIndex))>>
            \o ExecAll(text, Get(MatchAt(text, lastIndex)).endIndex + 1)
    ELSE ExecAll(text, lastIndex + 1)

\* secrets-detector.ts lines 126-132
maskSecret(value) ==
    IF Len(value) <= ShortSecret THEN [i \in 1..Len(value) |-> "*"]
    ELSE LET visibleChars == Min(VisibleMax, Len(value) \div 4) IN
         SubSeq(value, 1, visibleChars)
            \o [i \in 1..(Len(value) - visibleChars * 2) |-> "*"]
            \o SubSeq(value, Len(value) - visibleChars + 1, Len(value))

\* String.prototype.replace with a string pattern: the first occurrence
ReplaceFirst(s, q, by) ==
    IF ~Contains(s, q) THEN s
    ELSE LET i == CHOOSE i \in 0..(Len(s) - Len(q)) :
                    /\ SubSeq(s, i + 1, i + Len(q)) = q
                    /\ \A j \in 0..(i - 1) : SubSeq(s, j + 1, j + Len(q)) # q
         IN SubSeq(s, 1, i) \o by \o SubSeq(s, i + Len(q) + 1, Len(s))

\* sanitizedContent after the matches ms, in the order they were found
RECURSIVE Sanitize(_, _)
Sanitize(sanitizedContent, ms) ==
    IF ms = <<>> THEN sanitizedContent
    ELSE Sanitize(ReplaceFirst(sanitizedContent, ms[1].match,
                               maskSecret(ms[1].match)),
                  Tail(ms))

\* secrets-detector.ts lines 137-177
detectSecrets(content) ==
    LET matches == ExecAll(content, 1) IN
    [hasSensitiveData |-> Len(matches) > 0,
     matches          |-> matches,
     sanitizedContent |-> Sanitize(content, matches),
     originalContent  |-> content]

\* a check of the request that reads the content alone
ContentOnly(title, content) == content

\* `${title}\n${content}`: part_010 line 73, notes/[id]/route.ts line 90
FullText(title, content) == title \o <<"\n">> \o content

-----------------------------------------------------------------------------
(* lib/auth: secrets-detector.ts lines 200-412 *)

KeyIds == 1..MaxKeys

\* what a request presents as API key: none, a key of no row of the table
\* (0), the key of row k
NoKey == -1

\* the identifiers of the rate limit: `ip:${ip}` is 0, `key:${keyId}` is keyId
Identifiers == 0..MaxKeys

\* a validateApiKey that does not read isActive
validateApiKeyOfAnyState(keys, key, now) ==
    IF key \notin KeyIds
    THEN [valid |-> FALSE, keyId |-> 0, apiKeys |-> keys]
    ELSE IF keys[key].expiresAt # Null /\ Get(keys[key].expiresAt) < now
    THEN [valid |-> FALSE, keyId |-> 0, apiKeys |-> keys]
    ELSE [valid |-> TRUE, keyId |-> key,
          apiKeys |-> [keys EXCEPT ![key].lastUsedAt = Some(now)]]

\* secrets-detector.ts lines 255-301; the queries do not fail
validateApiKey(keys, key, now) ==
    IF key \notin KeyIds
    THEN [valid |-> FALSE, keyId |-> 0, apiKeys |-> keys]
    ELSE IF ~keys[key].isActive
    THEN [valid |-> FALSE, keyId |-> 0, apiKeys |-> keys]
    ELSE IF keys[key].expiresAt # Null /\ Get(keys[key].expiresAt) < now
    THEN [valid |-> FALSE, keyId |-> 0, apiKeys |-> keys]
    ELSE [valid |-> TRUE, keyId |-> key,
          apiKeys |-> [keys EXCEPT ![key].lastUsedAt = Some(now)]]

\* a checkRateLimit that counts the calls it refuses as well
checkRateLimitCounting(store, identifier, now) ==
    LET record == store[identifier] IN
    IF record = Null \/ (record # Null /\ Get(record).resetAt < now)
    THEN [allowed |-> TRUE, remaining |-> RATE_LIMIT_MAX - 1,
          resetAt |-> now + RATE_LIMIT_WINDOW,
          store |-> [store EXCEPT ![identifier] =
                        Some([count |-> 1,
                              resetAt |-> now + RATE_LIMIT_WINDOW])]]
    ELSE IF Get(record).count > RATE_LIMIT_MAX
    THEN [allowed |-> FALSE, remaining |-> 0,
          resetAt |-> Get(record).resetAt, store |-> store]
    ELSE [allowed |-> TRUE,
          remaining |-> RATE_LIMIT_MAX - (Get(record).count + 1),
          resetAt |-> Get(record).resetAt,
          store |-> [store EXCEPT ![identifier] =
                        Some([Get(record) EXCEPT !.count = @ + 1])]]

\* secrets-detector.ts lines 306-326: the result, and the Map after the call
checkRateLimit(store, identifier, now) ==
    LET record == store[identifier] IN
    IF record = Null \/ (record # Null /\ Get(record).resetAt < now)
    THEN [allowed |-> TRUE, remaining |-> RATE_LIMIT_MAX - 1,
          resetAt |-> now + RATE_LIMIT_WINDOW,
          store |-> [store EXCEPT ![identifier] =
                        Some([count |-> 1,
                              resetAt |-> now + RATE_LIMIT_WINDOW])]]
    ELSE IF Get(record).count >= RATE_LIMIT_MAX
    THEN [allowed |-> FALSE, remaining |-> 0,
          resetAt |-> Get(record).resetAt, store |-> store]
    ELSE [allowed |-> TRUE,
          remaining |-> RATE_LIMIT_MAX - (Get(record).count + 1),
          resetAt |-> Get(record).resetAt,
          store |-> [store EXCEPT ![identifier] =
                        Some([Get(record) EXCEPT !.count = @ + 1])]]

\* secrets-detector.ts lines 343-394: the result and the tables after the
\* call; token says whether the request carries the X-Internal-Token of the
\* server
authCheck(e, keys, store, now, key, token) ==
    IF e.internalToken /\ token
    THEN [authenticated |-> TRUE, rateLimited |-> FALSE,
          apiKeys |-> keys, store |-> store]
    ELSE IF ~e.authRequired
    THEN LET rateLimit == checkRateLimit(store, 0, now) IN
         [authenticated |-> rateLimit.allowed,
          rateLimited |-> ~rateLimit.allowed,
          apiKeys |-> keys, store |-> rateLimit.store]
    ELSE IF key = NoKey
    THEN [authenticated |-> FALSE, rateLimited |-> FALSE,
          apiKeys |-> keys, store |-> store]
    ELSE LET validation == validateApiKey(keys, key, now) IN
         IF ~validation.valid
         THEN [authenticated |-> FALSE, rateLimited |-> FALSE,
               apiKeys |-> keys, store |-> store]
         ELSE LET rateLimit ==
                      checkRateLimit(store, validation.keyId, now) IN
              [authenticated |-> rateLimit.allowed,
               rateLimited |-> ~rateLimit.allowed,
               apiKeys |-> validation.apiKeys, store |-> rateLimit.store]

-----------------------------------------------------------------------------
(* Vectors: pgvector's <=> (cosine distance), in hundredths *)

Dot(a, b) == a[1] * b[1] + a[2] * b[2]

Norm(a) == CHOOSE n \in 0..10 : n * n = Dot(a, a)

CosineDistance(a, b) == 100 - (100 * Dot(a, b)) \div (Norm(a) * Norm(b))

Similarity(a, b) == 100 - CosineDistance(a, b)

-----------------------------------------------------------------------------
(* The notes table *)

NoteIds(tbl) == {tbl[i].id : i \in 1..Len(tbl)}

NoteOf(tbl, id) == tbl[CHOOSE i \in 1..Len(tbl) : tbl[i].id = id]

Position(tbl, id) == CHOOSE i \in 1..Len(tbl) : tbl[i].id = id

\* the table after a write to row id that sets "updatedAt" to NOW()
Rewrite(tbl, id, row) ==
    Append(SelectSeq(tbl, LAMBDA n : n.id # id), row)

\* prisma.note.delete({ where: { id } })
Remove(tbl, id) == SelectSeq(tbl, LAMBDA n : n.id # id)

\* gen_random_uuid() / the default of the id column: an identifier that no
\* row has, here the smallest one
FreshId(tbl) ==
    CHOOSE id \in Ids \ NoteIds(tbl) : \A j \in Ids \ NoteIds(tbl) : id <= j

\* prisma.note.findMany({ orderBy: { updatedAt: 'desc' }, take: n }) as ids
MostRecent(tbl, n) == Take(Reverse([i \in 1..Len(tbl) |-> tbl[i].id]), n)

-----------------------------------------------------------------------------
(* Requests and responses *)

\* req.title / req.content are Null where the request body leaves the
\* field out (a title or content that is there is not empty: z.string().min(1));
\* req.exTitle / req.exContent are those of the row an update read before
\* its first await; req.text is the text the handler asks the embedding of,
\* req.prompt the text sent to the embedding backend
Idle == [op |-> "idle", pc |-> "idle", calls |-> 0, query |-> <<>>,
         limit |-> 0, threshold |-> 0, id |-> 0, title |-> Null,
         content |-> Null, exTitle |-> Null, exContent |-> Null,
         exTags |-> <<>>,
         text |-> <<>>, prompt |-> <<>>,
         allowSecrets |-> FALSE, sanitizeSecrets |-> FALSE,
         items |-> <<>>, skipSecrets |-> FALSE, total |-> 0, imported |-> 0,
         skipped |-> 0, failed |-> 0, errors |-> 0]

\* threw, embedding: whether generateEmbedding threw to the handler, and the
\*   value it returned if it did not
\* fault: what the embedding backend did during the request
\*   "none" no embedding was asked for, "disabled" getProvider() gave null,
\*   "ok" a vector came back, anything else is a failure of the backend
\* calls: the number of network calls made to the provider
NoResp == [op |-> "none", status |-> 0, searchType |-> "none",
           results |-> <<>>, calls |-> 0, fault |-> "none",
           threw |-> FALSE, embedding |-> Null, query |-> <<>>, limit |-> 0,
           threshold |-> 0, id |-> 0, nodes |-> <<>>, edges |-> <<>>, total |-> 0,
           stats |-> [totalNotes |-> 0, connectedNotes |-> 0,
                      connections |-> 0, threshold |-> 0],
           title |-> Null, content |-> Null,
           allowSecrets |-> FALSE, sanitizeSecrets |-> FALSE,
           imported |-> 0, skipped |-> 0, failed |-> 0, errors |-> 0,
           tag |-> <<>>, success |-> FALSE, error |-> "none",
           key |-> -1, token |-> FALSE]

-----------------------------------------------------------------------------
(* lib/embeddings/index.ts *)

\* let provider: EmbeddingProvider | null = null
NoProvider == "null"

\* a getProvider() that, after a call found the subsystem disabled, looks
\* again and falls back to the default provider
getProviderRetrying(c, p) ==
    IF p # NoProvider THEN p
    ELSE IF resp.fault = "disabled" THEN "ollama"
    ELSE CASE c.provider = "openai" ->
                IF ~c.hasKey THEN NoProvider ELSE "openai"
           [] c.provider = "ollama" -> "ollama"
           [] OTHER                 -> NoProvider

\* getProvider(): the value of the module-level provider after the call,
\* which is also what the call returns
getProvider(c, p) ==
    IF p # NoProvider THEN p
    ELSE CASE c.provider = "openai" ->
                IF ~c.hasKey THEN NoProvider ELSE "openai"
           [] c.provider = "ollama" -> "ollama"
           [] c.provider = "none"   -> NoProvider
           [] OTHER                 -> NoProvider

\* a getProvider() without line 18, if (provider) return provider
ConstructedEveryCall(c, p, n) ==
    IF getProvider(c, NoProvider) # NoProvider THEN n + 1 ELSE n

\* the number of instances constructed after a call of getProvider():
\* new OpenAIProvider() / new OllamaProvider() run when the module-level
\* provider is null and the configuration names a provider that is usable
Constructed(c, p, n) ==
    IF p = NoProvider /\ getProvider(c, p) # NoProvider THEN n + 1 ELSE n

\* isEmbeddingEnabled()
isEmbeddingEnabled(c, p) == getProvider(c, p) # NoProvider

\* the default of getEmbeddingDimensions(), whatever the provider
getDimensionsDefault(p) == OpenAIDim

\* getDimensions() of the two providers, with the default models
getDimensions(p) == IF p = "openai" THEN OpenAIDim ELSE OllamaDim

\* an async call settles: it returns a value or throws
Resolved(v) == [kind |-> "resolved", value |-> v]

Rejected == [kind |-> "rejected", value |-> Null]

\* the provider's promise is awaited without try/catch
NoCatch(outcome) == outcome

\* index.ts lines 51-56, try { return await p.generateEmbedding(text) }
\* catch { return null }: what generateEmbedding settles to when the
\* provider's promise settles to outcome
CatchToNull(outcome) ==
    IF outcome.kind = "resolved" THEN Resolved(outcome.value)
    ELSE Resolved(Null)

-----------------------------------------------------------------------------
(* Queries of the search routes *)

WithEmbedding(tbl) == {i \in 1..Len(tbl) : tbl[i].embedding # Null}

\* pgvector refuses <=> between vectors of different dimensions
DimensionError(tbl, q) ==
    \E i \in WithEmbedding(tbl) : Get(tbl[i].embedding).dim # q.dim

DistanceTo(tbl, q) ==
    [i \in WithEmbedding(tbl) |->
        CosineDistance(Get(tbl[i].embedding).v, q.v)]

Row(tbl, q, i) ==
    [id |-> tbl[i].id,
     similarity |-> Some(Similarity(Get(tbl[i].embedding).v, q.v))]

\* search/route.ts: WHERE embedding IS NOT NULL AND 1 - (e <=> q) > threshold
\*                  ORDER BY e <=> q LIMIT limit
\* the set of result lists the query may return
SemanticRows(tbl, q, limit, threshold) ==
    LET keep == {i \in WithEmbedding(tbl) :
                    Similarity(Get(tbl[i].embedding).v, q.v) > threshold}
    IN  { [k \in 1..Len(o) |-> Row(tbl, q, o[k])] :
          o \in TopAscending(keep, DistanceTo(tbl, q), limit) }

\* MCP search_notes: WHERE embedding IS NOT NULL ORDER BY e <=> q LIMIT limit
McpSemanticRows(tbl, q, limit) ==
    { [k \in 1..Len(o) |-> Row(tbl, q, o[k])] :
      o \in TopAscending(WithEmbedding(tbl), DistanceTo(tbl, q), limit) }

\* the where clause without the content field
TextMatchesTitleOnly(tbl, q) ==
    {tbl[i].id : i \in {j \in 1..Len(tbl) :
        ContainsInsensitive(tbl[j].title, q)}}

\* where: OR [title contains q, content contains q], mode insensitive
TextMatches(tbl, q) ==
    {tbl[i].id : i \in {j \in 1..Len(tbl) :
        \/ ContainsInsensitive(tbl[j].title, q)
        \/ ContainsInsensitive(tbl[j].content, q)}}

\* findMany({ where, orderBy: { updatedAt: 'desc' }, take: limit })
TextSearch(tbl, q, limit) ==
    Take(SelectSeqBy(MostRecent(tbl, Len(tbl)), TextMatches(tbl, q)), limit)

\* results.map(r => ({ ...r, similarity: null }))
WithNullSimilarity(ids) ==
    [k \in 1..Len(ids) |-> [id |-> ids[k], similarity |-> Null]]

-----------------------------------------------------------------------------
(* Connection graph: app/api/graph/route.ts *)

\* the rows of n1 CROSS JOIN n2 WHERE n1.id < n2.id AND both embeddings are
\* there AND 1 - (n1.embedding <=> n2.embedding) > threshold
PairSimilarity(tbl, pr) ==
    Similarity(Get(NoteOf(tbl, pr[1]).embedding).v,
               Get(NoteOf(tbl, pr[2]).embedding).v)

\* the join without n1.id < n2.id: every pair in both orders
QualifyingPairsBothWays(tbl, threshold) ==
    { pr \in NoteIds(tbl) \X NoteIds(tbl) :
        /\ pr[1] # pr[2]
        /\ NoteOf(tbl, pr[1]).embedding # Null
        /\ NoteOf(tbl, pr[2]).embedding # Null
        /\ PairSimilarity(tbl, pr) > threshold }

QualifyingPairs(tbl, threshold) ==
    { pr \in NoteIds(tbl) \X NoteIds(tbl) :
        /\ pr[1] < pr[2]
        /\ NoteOf(tbl, pr[1]).embedding # Null
        /\ NoteOf(tbl, pr[2]).embedding # Null
        /\ PairSimilarity(tbl, pr) > threshold }

Edge(tbl, pr) ==
    [source |-> pr[1], target |-> pr[2], similarity |-> PairSimilarity(tbl, pr)]

\* the query with ORDER BY similarity ASC
GraphEdgesAscending(tbl, threshold) ==
    LET pairs == QualifyingPairs(tbl, threshold)
        key   == [pr \in pairs |-> PairSimilarity(tbl, pr)]
    IN  { [k \in 1..Len(o) |-> Edge(tbl, o[k])] :
          o \in TopAscending(pairs, key, EdgeCap) }

\* ORDER BY similarity DESC LIMIT 500: the edge lists the query may return
GraphEdges(tbl, threshold) ==
    LET pairs == QualifyingPairs(tbl, threshold)
        key   == [pr \in pairs |-> 0 - PairSimilarity(tbl, pr)]
    IN  { [k \in 1..Len(o) |-> Edge(tbl, o[k])] :
          o \in TopAscending(pairs, key, EdgeCap) }

\* the node list without the filter
AllCandidates(candidates, edges) == candidates

\* connectedIds and nodes.filter(n => connectedIds.has(n.id))
ConnectedNodes(candidates, edges) ==
    SelectSeqBy(candidates,
                {edges[k].source : k \in 1..Len(edges)}
                    \cup {edges[k].target : k \in 1..Len(edges)})

-----------------------------------------------------------------------------
(* Completion of a request once its embedding (or null) is known *)

Answer(r, emb, fault) ==
    [NoResp EXCEPT !.op = r.op, !.calls = r.calls, !.fault = fault,
                   !.embedding = emb, !.query = r.query, !.limit = r.limit,
                   !.threshold = r.threshold, !.id = r.id,
                   !.title = r.title, !.content = r.content,
                   !.allowSecrets = r.allowSecrets,
                   !.sanitizeSecrets = r.sanitizeSecrets]

\* the catch block at the end of every handler: an exception of
\* generateEmbedding becomes the handler's error response
HandlerCatch(r, fault) ==
    /\ notes' = notes
    /\ resp' = [Answer(r, Null, fault) EXCEPT !.status = 500, !.threw = TRUE]

\* a search that marks the rows it returns as just read
RestSearchDoneTouching(r, emb, fault) ==
    /\ notes' = IF emb = Null \/ notes = <<>> THEN notes
                ELSE Rewrite(notes, notes[1].id, notes[1])
    /\ resp' = [Answer(r, emb, fault) EXCEPT !.status = 200]

\* search/route.ts lines 56-89
RestSearchDone(r, emb, fault) ==
    /\ notes' = notes
    /\ IF emb = Null
       THEN resp' = [Answer(r, emb, fault) EXCEPT !.status = 500]
       ELSE IF DimensionError(notes, Get(emb))
       THEN resp' = [Answer(r, emb, fault) EXCEPT !.status = 500]
       ELSE \E rows \in SemanticRows(notes, Get(emb), r.limit, r.threshold) :
              resp' = [Answer(r, emb, fault) EXCEPT
                          !.status = 200, !.searchType = "semantic",
                          !.results = rows]

\* MCP search_notes, after generateEmbedding
McpSearchDone(r, emb, fault) ==
    /\ notes' = notes
    /\ IF emb = Null
       THEN resp' = [Answer(r, emb, fault) EXCEPT
                        !.status = 200, !.searchType = "text",
                        !.results = WithNullSimilarity(
                                        TextSearch(notes, r.query, r.limit))]
       ELSE IF DimensionError(notes, Get(emb))
       THEN resp' = [Answer(r, emb, fault) EXCEPT !.status = 500]
       ELSE \E rows \in McpSemanticRows(notes, Get(emb), r.limit) :
              resp' = [Answer(r, emb, fault) EXCEPT
                          !.status = 200, !.searchType = "semantic",
                          !.results = rows]

\* unnamed/part_010 lines 103-154: POST /api/notes after generateEmbedding;
\* MCP create_note does the same and answers isError where POST answers 500
CreateDone(r, emb, fault) ==
    IF emb # Null /\ Get(emb).dim # ColumnDim
    THEN /\ notes' = notes
         /\ resp' = [Answer(r, emb, fault) EXCEPT !.status = 500]
    ELSE LET id == FreshId(notes) IN
           /\ notes' = Append(notes, [id |-> id, title |-> r.title,
                                      content |-> r.content,
                                      tags |-> <<>>,
                                      embedding |-> emb])
           /\ resp' = [Answer(r, emb, fault) EXCEPT !.status = 201, !.id = id]

\* notes/[id]/route.ts lines 125-162: PUT after generateEmbedding
RestUpdateDone(r, emb, fault) ==
    LET newTitle   == IF r.title # Null THEN r.title ELSE r.exTitle
        newContent == IF r.content # Null THEN r.content ELSE r.exContent
    IN
    IF emb # Null
    THEN IF Get(emb).dim # ColumnDim
         THEN /\ notes' = notes
              /\ resp' = [Answer(r, emb, fault) EXCEPT !.status = 500]
         ELSE /\ notes' = IF r.id \in NoteIds(notes)
                          THEN Rewrite(notes, r.id,
                                   [id |-> r.id, title |-> newTitle,
                                    content |-> newContent,
                                    tags |-> r.exTags, embedding |-> emb])
                          ELSE notes
              /\ resp' = [Answer(r, emb, fault) EXCEPT !.status = 200]
    ELSE IF r.id \in NoteIds(notes)
         THEN /\ notes' = Rewrite(notes, r.id,
                              [NoteOf(notes, r.id) EXCEPT
                                  !.title = IF r.title # Null
                                            THEN r.title ELSE @,
                                  !.content = IF r.content # Null
                                              THEN r.content ELSE @])
              /\ resp' = [Answer(r, emb, fault) EXCEPT !.status = 200]
         ELSE /\ notes' = notes
              /\ resp' = [Answer(r, emb, fault) EXCEPT !.status = 500]

\* MCP update_note after generateEmbedding: keys/route.ts lines 403-424;
\* an exception of a query is the isError answer of executeTool
McpUpdateDone(r, emb, fault) ==
    LET newTitle   == IF r.title # Null THEN r.title ELSE r.exTitle
        newContent == IF r.content # Null THEN r.content ELSE r.exContent
        row        == [id |-> r.id, title |-> newTitle, content |-> newContent,
                       tags |-> r.exTags, embedding |-> emb]
    IN
    IF emb # Null
    THEN IF Get(emb).dim # ColumnDim
         THEN /\ notes' = notes
              /\ resp' = [Answer(r, emb, fault) EXCEPT !.status = 500]
         ELSE /\ notes' = IF r.id \in NoteIds(notes)
                          THEN Rewrite(notes, r.id, row) ELSE notes
              /\ resp' = [Answer(r, emb, fault) EXCEPT !.status = 200]
    ELSE IF r.id \in NoteIds(notes)
         THEN /\ notes' = Rewrite(notes, r.id,
                              [row EXCEPT
                                  !.embedding = NoteOf(notes, r.id).embedding])
              /\ resp' = [Answer(r, emb, fault) EXCEPT !.status = 200]
         ELSE /\ notes' = notes
              /\ resp' = [Answer(r, emb, fault) EXCEPT !.status = 500]

\* import/route.ts lines 159-190: the loop of POST /api/import after
\* generateEmbedding of the note in hand, notesToImport[1] of what is left;
\* an exception is caught in the loop. failed counts the passes through
\* the catch block, which the response shows as errors only
ImportSettled(r, ret, fault) ==
    LET note == Get(r.items[1])
        threw == \/ ret.kind = "rejected"
                 \/ ret.value # Null /\ Get(ret.value).dim # ColumnDim
    IN
    /\ resp' = resp
    /\ IF threw
       THEN /\ notes' = notes
            /\ req' = [r EXCEPT !.pc = "loop", !.items = Tail(@),
                                !.failed = @ + 1, !.errors = @ + 1]
       ELSE /\ notes' = Append(notes, [id |-> FreshId(notes),
                                       title |-> note.title,
                                       content |-> note.content,
                                       tags |-> <<>>,
                                       embedding |-> ret.value])
            /\ req' = [r EXCEPT !.pc = "loop", !.items = Tail(@),
                                !.imported = @ + 1]

\* the handler of request r goes on after generateEmbedding settled to ret
Complete(r, ret, fault) ==
    IF r.op = "import" THEN ImportSettled(r, ret, fault) ELSE
    /\ req' = Idle
    /\ IF ret.kind = "rejected" THEN HandlerCatch(r, fault)
       ELSE CASE r.op = "restSearch" -> RestSearchDone(r, ret.value, fault)
              [] r.op = "mcpSearch"  -> McpSearchDone(r, ret.value, fault)
              [] r.op = "restCreate" -> CreateDone(r, ret.value, fault)
              [] r.op = "mcpCreate"  -> CreateDone(r, ret.value, fault)
              [] r.op = "restUpdate" -> RestUpdateDone(r, ret.value, fault)
              [] r.op = "mcpUpdate"  -> McpUpdateDone(r, ret.value, fault)

-----------------------------------------------------------------------------
(* generateEmbedding of lib/embeddings: index.ts and the two providers *)

\* the text a handler asks the embedding of: the query of a search,
\* `${title}\n\n${content}` of a note
EmbeddingText(r) ==
    IF r.op \in {"restSearch", "mcpSearch"} THEN r.query
    ELSE (IF r.title # Null THEN r.title ELSE r.exTitle)
            \o <<"\n", "\n">>
            \o (IF r.content # Null THEN r.content ELSE r.exContent)

\* ollama.ts lines 61-65
truncateText(text) ==
    IF Len(text) <= maxChars THEN text ELSE SubSeq(text, 1, maxChars)

\* the text in the body of the provider's embeddings request:
\* ollama.ts line 81 prompt: truncated, openai.ts line 30 input: text
ProviderInput(p, text) ==
    IF p = "ollama" THEN truncateText(text) ELSE text

\* index.ts lines 47-49 and the provider's code up to its first await
LibGenerateEmbedding(r) ==
    LET p == getProvider(cfg, provider) IN
    /\ provider' = p
    /\ constructed' = Constructed(cfg, provider, constructed)
    /\ UNCHANGED <<authVars, cfg, modelPulled, calls>>
    /\ IF p = NoProvider
       THEN Complete(r, Resolved(Null), "disabled")
       ELSE /\ req' = [r EXCEPT !.calls = 1,
                          !.text = EmbeddingText(r),
                          !.prompt = ProviderInput(p, EmbeddingText(r)),
                          !.pc = IF p = "ollama" /\ ~modelPulled
                                 THEN "tags" ELSE "embed"]
            /\ resp' = NoResp
            /\ notes' = notes

\* ensureModelLoaded: GET /api/tags answers
TagsRespond(o) ==
    /\ req.pc = "tags"
    /\ IF o = "noModel"
       THEN /\ req' = [req EXCEPT !.pc = "pull", !.calls = @ + 1]
            /\ UNCHANGED modelPulled
       ELSE /\ modelPulled' = TRUE
            /\ req' = [req EXCEPT !.pc = "embed", !.calls = @ + 1]
    /\ UNCHANGED <<authVars, cfg, provider, constructed, calls, notes, resp>>

\* ensureModelLoaded: POST /api/pull answers
PullRespond ==
    /\ req.pc = "pull"
    /\ modelPulled' = TRUE
    /\ req' = [req EXCEPT !.pc = "embed", !.calls = @ + 1]
    /\ UNCHANGED <<authVars, cfg, provider, constructed, calls, notes, resp>>

\* the length of data.embedding / response.data[0].embedding: that of the
\* vectors of the model named in the request, nomic-embed-text or
\* text-embedding-3-small
EmbeddingLength(p) == IF p = "openai" THEN OpenAIDim ELSE OllamaDim

\* what the provider's generateEmbedding promise settles to when the
\* embeddings request answers with o
ProviderOutcome(p, o) ==
    CASE o.kind = "ok"      -> Resolved(Some([dim |-> EmbeddingLength(p), v |-> o.v]))
      [] o.kind = "noField" -> IF p = "ollama" THEN Resolved(Null) ELSE Rejected
      [] OTHER              -> Rejected

Answers ==
    {[kind |-> "ok", v |-> v] : v \in Vecs}
        \cup {[kind |-> k, v |-> <<0, 0>>] :
                 k \in {"notOk", "netError", "noField"}}

\* the embeddings request answers
EmbedRespond(o) ==
    /\ req.pc = "embed"
    /\ UNCHANGED <<authVars, cfg, provider, constructed, calls, modelPulled>>
    /\ Complete(req, CatchToNull(ProviderOutcome(provider, o)), o.kind)

\* ollama.ts line 73: controller.abort() after 60 s; the OpenAI client
\* gives up a request after its own timeout
TimerArmed(r) == r.pc = "embed"

EmbedTimeout ==
    /\ TimerArmed(req)
    /\ UNCHANGED <<authVars, cfg, provider, constructed, calls, modelPulled>>
    /\ Complete(req, CatchToNull(Rejected), "timeout")

-----------------------------------------------------------------------------
(* The exports of lib/embeddings called side by side *)

\* the synchronous and the asynchronous exports of index.ts
SyncExports == {"getEmbeddingDimensions", "isEmbeddingEnabled"}

AsyncExports == {"generateEmbedding", "generateEmbeddings"}

\* calls[c].used is the instance the call got from getProvider(), numbered
\* by the order of construction, 0 where it got null
NoCall == [fn |-> "none", pc |-> "idle", used |-> 0]

\* a call of an export runs, without interruption, up to its first await
\* or to its return: index.ts lines 47-52, 59-64, 71-73, 76-77
LibCall(c, fn) ==
    LET p == getProvider(cfg, provider)
        n == Constructed(cfg, provider, constructed)
    IN
    /\ calls[c].pc \in {"idle", "returned"}
    /\ provider' = p
    /\ constructed' = n
    /\ calls' = [calls EXCEPT ![c] =
                    [fn   |-> fn,
                     pc   |-> IF fn \in AsyncExports /\ p # NoProvider
                              THEN "awaiting" ELSE "returned",
                     used |-> IF p = NoProvider THEN 0 ELSE n]]
    /\ UNCHANGED <<authVars, cfg, modelPulled, notes, req, resp>>

\* the provider's promise settles and the call returns: index.ts lines
\* 52-56, 64-68; a call of the Ollama provider that resolved went through
\* ensureModelLoaded
LibSettle(c, outcome) ==
    /\ calls[c].pc = "awaiting"
    /\ calls' = [calls EXCEPT ![c].pc = "returned"]
    /\ modelPulled' = IF provider = "ollama" /\ outcome.kind = "resolved"
                      THEN TRUE ELSE modelPulled
    /\ UNCHANGED <<authVars, cfg, provider, constructed, notes, req, resp>>

-----------------------------------------------------------------------------
(* generateEmbedding of the MCP endpoint: keys/route.ts lines 147-179 *)

McpGenerateEmbedding(r) ==
    /\ req' = [r EXCEPT !.calls = 1, !.pc = "mcpFetch",
                       !.text = EmbeddingText(r), !.prompt = EmbeddingText(r)]
    /\ resp' = NoResp
    /\ UNCHANGED <<authVars, cfg, provider, constructed, calls, modelPulled, notes>>

\* a generateEmbedding that reads every answer as that of Ollama
McpOutcomeOllama(c, o) ==
    CASE o.kind = "ok" -> Resolved(Some([dim |-> OllamaDim, v |-> o.v]))
      [] OTHER -> Resolved(Null)

\* data.embedding || null, data.data?.[0]?.embedding || null, catch -> null
McpOutcome(c, o) ==
    CASE o.kind = "ok" ->
            Resolved(Some([dim |-> IF c.provider = "openai" /\ c.hasKey
                                   THEN OpenAIDim ELSE OllamaDim,
                           v   |-> o.v]))
      [] OTHER -> Resolved(Null)

McpFetchRespond(o) ==
    /\ req.pc = "mcpFetch"
    /\ UNCHANGED <<authVars, cfg, provider, constructed, calls, modelPulled>>
    /\ Complete(req, McpOutcome(cfg, o), o.kind)

-----------------------------------------------------------------------------
(* Request handlers *)

\* POST /api/search: search/route.ts lines 22-56
RestSearch(q, limit, threshold) ==
    /\ req.op = "idle"
    /\ LET r == [Idle EXCEPT !.op = "restSearch", !.query = q,
                             !.limit = limit, !.threshold = threshold]
       IN IF ~isEmbeddingEnabled(cfg, provider)
          THEN /\ provider' = getProvider(cfg, provider)
               /\ constructed' = Constructed(cfg, provider, constructed)
               /\ resp' = [Answer(r, Null, "disabled") EXCEPT
                              !.status = 200, !.searchType = "text",
                              !.results = WithNullSimilarity(
                                              TextSearch(notes, q, limit))]
               /\ UNCHANGED <<authVars, cfg, modelPulled, notes, req, calls>>
          ELSE LibGenerateEmbedding(r)

\* MCP tools/call search_notes
McpSearch(q, limit) ==
    /\ req.op = "idle"
    /\ McpGenerateEmbedding([Idle EXCEPT !.op = "mcpSearch", !.query = q,
                                         !.limit = limit])

\* POST /api/notes: part_010 lines 69-101
RestCreateWith(title, content, allowSecrets, sanitizeSecrets) ==
    /\ req.op = "idle"
    /\ Len(notes) < MaxStored
    /\ LET secretsCheck == detectSecrets(FullText(title, content))
           r == [Idle EXCEPT !.op = "restCreate",
                             !.title = title, !.content = content,
                             !.allowSecrets = allowSecrets,
                             !.sanitizeSecrets = sanitizeSecrets]
       IN IF secretsCheck.hasSensitiveData /\ ~allowSecrets /\ ~sanitizeSecrets
          THEN /\ resp' = [Answer(r, Null, "none") EXCEPT !.status = 422]
               /\ UNCHANGED <<authVars, cfg, provider, constructed, calls, modelPulled, notes, req>>
          ELSE IF secretsCheck.hasSensitiveData /\ sanitizeSecrets
          THEN LibGenerateEmbedding(
                   [r EXCEPT !.title = detectSecrets(title).sanitizedContent,
                             !.content = detectSecrets(content).sanitizedContent])
          ELSE LibGenerateEmbedding(r)

\* POST /api/notes of a body without allowSecrets and sanitizeSecrets:
\* part_010 lines 16-17, both default to false
RestCreate(title, content) == RestCreateWith(title, content, FALSE, FALSE)

\* MCP tools/call create_note
McpCreate(title, content) ==
    /\ req.op = "idle"
    /\ Len(notes) < MaxStored
    /\ McpGenerateEmbedding([Idle EXCEPT !.op = "mcpCreate",
                                         !.title = title, !.content = content])

\* PUT /api/notes/[id]: notes/[id]/route.ts lines 75-125; a body with
\* neither title nor content is one that sets the tags only
RestUpdateWith(id, title, content, allowSecrets, sanitizeSecrets) ==
    /\ req.op = "idle"
    /\ LET r == [Idle EXCEPT !.op = "restUpdate", !.id = id,
                             !.title = title, !.content = content,
                             !.allowSecrets = allowSecrets,
                             !.sanitizeSecrets = sanitizeSecrets]
           existing == NoteOf(notes, id)
           newTitle == IF title # Null THEN title ELSE existing.title
           newContent == IF content # Null THEN content ELSE existing.content
           secretsCheck == detectSecrets(FullText(newTitle, newContent))
           clean == secretsCheck.hasSensitiveData /\ sanitizeSecrets
           data == [r EXCEPT
                      !.title = IF clean /\ title # Null
                                THEN detectSecrets(title).sanitizedContent
                                ELSE title,
                      !.content = IF clean /\ content # Null
                                  THEN detectSecrets(content).sanitizedContent
                                  ELSE content]
       IN IF id \notin NoteIds(notes)
          THEN /\ resp' = [Answer(r, Null, "none") EXCEPT !.status = 404]
               /\ UNCHANGED <<authVars, cfg, provider, constructed, calls, modelPulled, notes, req>>
          ELSE IF secretsCheck.hasSensitiveData
                    /\ ~allowSecrets /\ ~sanitizeSecrets
          THEN /\ resp' = [Answer(r, Null, "none") EXCEPT !.status = 422]
               /\ UNCHANGED <<authVars, cfg, provider, constructed, calls, modelPulled, notes, req>>
          ELSE IF title = Null /\ content = Null
          THEN /\ resp' = [Answer(r, Null, "none") EXCEPT !.status = 200]
               /\ notes' = Rewrite(notes, id, NoteOf(notes, id))
               /\ UNCHANGED <<authVars, cfg, provider, constructed, calls, modelPulled, req>>
          ELSE LibGenerateEmbedding(
                   [data EXCEPT !.exTitle = existing.title,
                                !.exContent = existing.content,
                                !.exTags = existing.tags])

\* PUT /api/notes/[id] of a body without allowSecrets and sanitizeSecrets
RestUpdate(id, title, content) ==
    RestUpdateWith(id, title, content, FALSE, FALSE)

\* MCP tools/call update_note: keys/route.ts lines 383-401
McpUpdate(id, title, content) ==
    /\ req.op = "idle"
    /\ LET r == [Idle EXCEPT !.op = "mcpUpdate", !.id = id,
                             !.title = title, !.content = content]
       IN IF id \notin NoteIds(notes)
          THEN /\ resp' = [Answer(r, Null, "none") EXCEPT !.status = 404]
               /\ UNCHANGED <<authVars, cfg, provider, constructed, calls, modelPulled, notes, req>>
          ELSE IF title = Null /\ content = Null
          THEN /\ resp' = [Answer(r, Null, "none") EXCEPT !.status = 200]
               /\ notes' = Rewrite(notes, id, NoteOf(notes, id))
               /\ UNCHANGED <<authVars, cfg, provider, constructed, calls, modelPulled, req>>
          ELSE McpGenerateEmbedding(
                   [r EXCEPT !.exTitle = NoteOf(notes, id).title,
                             !.exContent = NoteOf(notes, id).content,
                             !.exTags = NoteOf(notes, id).tags])

-----------------------------------------------------------------------------
(* Requests as far as authCheck *)

\* the operations of the API that read or write notes
Routes ==
    {"GET /api/notes", "POST /api/notes", "GET /api/notes/[id]",
     "PUT /api/notes/[id]", "DELETE /api/notes/[id]", "POST /api/search",
     "GET /api/graph", "POST /api/import", "GET /api/export",
     "MCP tools/call", "MCP resources/read"}

\* the handlers that call authCheck before anything else; POST of the MCP
\* endpoint (keys/route.ts lines 477-554) does not call it
Guarded(route) == route \notin {"MCP tools/call", "MCP resources/read"}

\* a request to a route, up to the point where its handler has passed or
\* failed authCheck: 200 stands for the handler going on
Api(route, key, token) ==
    /\ req.op = "idle"
    /\ LET auth == authCheck(env, apiKeys, rateLimitStore, clock, key, token)
           answer == [NoResp EXCEPT !.op = route, !.key = key,
                                    !.token = token]
       IN IF Guarded(route)
          THEN /\ apiKeys' = auth.apiKeys
               /\ rateLimitStore' = auth.store
               /\ resp' = [answer EXCEPT
                              !.status = IF auth.authenticated THEN 200
                                         ELSE IF auth.rateLimited THEN 429
                                         ELSE 401]
          ELSE /\ resp' = [answer EXCEPT !.status = 200]
               /\ UNCHANGED <<apiKeys, rateLimitStore>>
    /\ UNCHANGED <<env, clock, log, cfg, provider, modelPulled, notes, req,
                   constructed, calls>>

\* DELETE /api/keys?id=: keys/route.ts lines 101-124
RevokeKey(id, admin) ==
    /\ req.op = "idle"
    /\ IF ~admin
       THEN /\ resp' = [NoResp EXCEPT !.op = "DELETE /api/keys",
                                      !.key = id, !.status = 403]
            /\ apiKeys' = apiKeys
       ELSE IF id \notin KeyIds
       THEN /\ resp' = [NoResp EXCEPT !.op = "DELETE /api/keys",
                                      !.key = id, !.status = 500]
            /\ apiKeys' = apiKeys
       ELSE /\ resp' = [NoResp EXCEPT !.op = "DELETE /api/keys",
                                      !.key = id, !.status = 200]
            /\ apiKeys' = [apiKeys EXCEPT ![id].isActive = FALSE]
    /\ UNCHANGED <<env, rateLimitStore, clock, log, cfg, provider, modelPulled,
                   notes, req, constructed, calls>>

\* a call of checkRateLimit
RateCheck(identifier) ==
    /\ Len(log) < MaxChecks
    /\ LET rl == checkRateLimit(rateLimitStore, identifier, clock) IN
       /\ rateLimitStore' = rl.store
       /\ log' = Append(log, [identifier |-> identifier, at |-> clock,
                               allowed |-> rl.allowed,
                               remaining |-> rl.remaining])
    /\ UNCHANGED <<env, apiKeys, clock, cfg, provider, modelPulled, notes, req,
                   resp, constructed, calls>>

\* time passes
Tick ==
    /\ clock < MaxClock
    /\ clock' = clock + 1
    /\ UNCHANGED <<env, apiKeys, rateLimitStore, log, cfg, provider,
                   modelPulled, notes, req, resp, constructed, calls>>

-----------------------------------------------------------------------------
(* Tags: app/notes/actions.ts *)

\* the answer of GET /api/notes/[id]: notes/[id]/route.ts lines 29-52; the
\* body is { note } with the selected columns, or { error }
GetNote(tbl, id) ==
    IF id \in NoteIds(tbl)
    THEN [ok |-> TRUE,
          body |-> [note |-> [id |-> id, title |-> NoteOf(tbl, id).title,
                              content |-> NoteOf(tbl, id).content,
                              tags |-> NoteOf(tbl, id).tags]]]
    ELSE [ok |-> FALSE, body |-> [error |-> "Note not found"]]

\* obj.name of a parsed JSON object: undefined where it has no such property
Property(obj, name) == IF name \in DOMAIN obj THEN Some(obj[name]) ELSE Null

\* tag.split('/')
RECURSIVE Split(_)
Split(tag) ==
    IF \A i \in 1..Len(tag) : tag[i] # "/" THEN <<tag>>
    ELSE LET i == CHOOSE i \in 1..Len(tag) :
                    tag[i] = "/" /\ \A j \in 1..(i - 1) : tag[j] # "/"
         IN <<SubSeq(tag, 1, i - 1)>> \o Split(SubSeq(tag, i + 1, Len(tag)))

\* parts.join('/')
RECURSIVE Join(_)
Join(parts) ==
    IF parts = <<>> THEN <<>>
    ELSE IF Len(parts) = 1 THEN parts[1]
    ELSE parts[1] \o <<"/">> \o Join(Tail(parts))

\* actions.ts lines 31-37: the loop from i on over the parts of the tag
RECURSIVE WithParentTags(_, _, _)
WithParentTags(newTags, parts, i) ==
    IF i > Len(parts) THEN newTags
    ELSE LET parentTag == Join(SubSeq(parts, 1, i)) IN
         WithParentTags(IF \E k \in 1..Len(newTags) : newTags[k] = parentTag
                        THEN newTags
                        ELSE Append(newTags, parentTag),
                        parts, i + 1)

\* PUT /api/notes/[id] of the body { tags }: notes/[id]/route.ts lines
\* 77-102 and 115-162, the status of the answer and the table it leaves
PutTags(tbl, id, tags) ==
    IF id \notin NoteIds(tbl) THEN [status |-> 404, notes |-> tbl]
    ELSE IF detectSecrets(FullText(NoteOf(tbl, id).title,
                                   NoteOf(tbl, id).content)).hasSensitiveData
    THEN [status |-> 422, notes |-> tbl]
    ELSE [status |-> 200,
          notes |-> Rewrite(tbl, id, [NoteOf(tbl, id) EXCEPT !.tags = tags])]

\* PUT /api/notes/[id] of the body { tags }
RestPutTags(id, tags) ==
    /\ req.op = "idle"
    /\ notes' = PutTags(notes, id, tags).notes
    /\ resp' = [NoResp EXCEPT !.op = "restPutTags", !.id = id,
                              !.status = PutTags(notes, id, tags).status]
    /\ UNCHANGED <<authVars, cfg, provider, constructed, calls, modelPulled, req>>

\* the result of addTagToNote
TagResult(id, tag, success, error) ==
    [NoResp EXCEPT !.op = "addTagToNote", !.id = id, !.tag = tag,
                   !.success = success, !.error = error]

\* addTagToNote(noteId, tag): actions.ts lines 5-57, its two requests
\* passing authCheck. note is the parsed body of the GET; note.tags.includes
\* of a note without the property tags throws, which the catch block
\* answers
addTagToNote(noteId, tag) ==
    /\ req.op = "idle"
    /\ UNCHANGED <<authVars, cfg, provider, constructed, calls, modelPulled, req>>
    /\ LET getRes == GetNote(notes, noteId)
           note   == getRes.body
           tags   == Property(note, "tags")
       IN IF ~getRes.ok
          THEN /\ resp' = TagResult(noteId, tag, FALSE, "Note not found")
               /\ notes' = notes
          ELSE IF tags = Null
          THEN /\ resp' = TagResult(noteId, tag, FALSE, "Failed to add tag")
               /\ notes' = notes
          ELSE IF \E k \in 1..Len(Get(tags)) : Get(tags)[k] = tag
          THEN /\ resp' = TagResult(noteId, tag, TRUE, "none")
               /\ notes' = notes
          ELSE LET newTags   == WithParentTags(Get(tags), Split(tag), 1)
                   updateRes == PutTags(notes, noteId, newTags)
               IN /\ notes' = updateRes.notes
                  /\ resp' = IF updateRes.status = 200
                             THEN TagResult(noteId, tag, TRUE, "none")
                             ELSE TagResult(noteId, tag, FALSE, "updateRes")

\* POST /api/import, up to the loop: import/route.ts lines 101-143; items
\* is the parsed array, of which an element is Null where the JSON has null
Import(items, skipSecrets) ==
    /\ req.op = "idle"
    /\ req' = [Idle EXCEPT !.op = "import", !.pc = "loop", !.items = items,
                           !.skipSecrets = skipSecrets, !.total = Len(items)]
    /\ resp' = NoResp
    /\ UNCHANGED <<authVars, cfg, provider, constructed, calls, modelPulled, notes>>

\* the answer of POST /api/import to request r
ImportAnswer(r) ==
    [Answer(r, Null, "none") EXCEPT
        !.total = r.total, !.imported = r.imported, !.skipped = r.skipped,
        !.failed = r.failed, !.errors = r.errors]

\* one turn of for (const note of notesToImport), up to its await, and the
\* response after the last one: import/route.ts lines 145-196. Reading
\* note.title of null throws, in the try block and again in its catch
\* block, which the catch at the end of the handler answers 500
ImportNext ==
    /\ req.op = "import"
    /\ req.pc = "loop"
    /\ IF req.items = <<>>
       THEN /\ resp' = [ImportAnswer(req) EXCEPT !.status = 200]
            /\ req' = Idle
            /\ UNCHANGED <<authVars, cfg, provider, constructed, calls, modelPulled, notes>>
       ELSE IF req.items[1] = Null
       THEN /\ resp' = [ImportAnswer(req) EXCEPT
                           !.status = 500, !.threw = TRUE]
            /\ req' = Idle
            /\ UNCHANGED <<authVars, cfg, provider, constructed, calls, modelPulled, notes>>
       ELSE LET note == Get(req.items[1]) IN
            IF detectSecrets(FullText(note.title, note.content)).hasSensitiveData
                  /\ ~req.skipSecrets
            THEN /\ req' = [req EXCEPT !.items = Tail(@),
                                       !.skipped = @ + 1, !.errors = @ + 1]
                 /\ UNCHANGED <<authVars, cfg, provider, constructed, calls, modelPulled, notes, resp>>
            ELSE LibGenerateEmbedding(
                     [req EXCEPT !.title = note.title,
                                 !.content = note.content])

\* MCP tools/call delete_note: keys/route.ts lines 427-431; delete of a
\* note that is not there throws, which executeTool answers isError
McpDelete(id) ==
    /\ req.op = "idle"
    /\ LET r == [Idle EXCEPT !.op = "mcpDelete", !.id = id]
       IN IF id \notin NoteIds(notes)
          THEN /\ resp' = [Answer(r, Null, "none") EXCEPT
                              !.status = 500, !.threw = TRUE]
               /\ notes' = notes
          ELSE /\ resp' = [Answer(r, Null, "none") EXCEPT !.status = 200]
               /\ notes' = Remove(notes, id)
    /\ UNCHANGED <<authVars, cfg, provider, constructed, calls, modelPulled, req>>

\* MCP tools/call get_note: keys/route.ts lines 372-381
McpGet(id) ==
    /\ req.op = "idle"
    /\ LET r == [Idle EXCEPT !.op = "mcpGet", !.id = id]
       IN IF id \notin NoteIds(notes)
          THEN resp' = [Answer(r, Null, "none") EXCEPT !.status = 404]
          ELSE resp' = [Answer(r, Null, "none") EXCEPT
                           !.status = 200,
                           !.title = NoteOf(notes, id).title,
                           !.content = NoteOf(notes, id).content]
    /\ UNCHANGED <<authVars, cfg, provider, constructed, calls, modelPulled, notes, req>>

\* MCP tools/call list_notes with offset 0: keys/route.ts lines 433-453
McpList(limit) ==
    /\ req.op = "idle"
    /\ resp' = [Answer([Idle EXCEPT !.op = "mcpList", !.limit = limit],
                       Null, "none") EXCEPT
                   !.status = 200,
                   !.nodes = MostRecent(notes, limit),
                   !.total = Len(notes)]
    /\ UNCHANGED <<authVars, cfg, provider, constructed, calls, modelPulled, notes, req>>

-----------------------------------------------------------------------------
(* The stdio MCP server: unnamed/part_015. Each tool is the table it leaves
   and whether its answer is isError, given what its embedding call gave *)

\* generateEmbedding of the stdio server: part_015 lines 197-230
StdioOutcome(c, o) ==
    CASE o.kind = "ok" ->
            Resolved(Some([dim |-> IF c.provider = "openai" /\ c.hasKey
                                   THEN OpenAIDim ELSE OllamaDim,
                           v   |-> o.v]))
      [] OTHER -> Resolved(Null)

\* part_015 lines 410-460
StdioCreateNote(tbl, title, content, emb) ==
    IF emb # Null /\ Get(emb).dim # ColumnDim
    THEN [notes |-> tbl, isError |-> TRUE]
    ELSE [notes |-> Append(tbl, [id |-> FreshId(tbl), title |-> title,
                                 content |-> content, tags |-> <<>>,
                                 embedding |-> emb]),
          isError |-> FALSE]

\* part_015 lines 462-527
StdioSearchNotes(tbl, emb) ==
    [notes |-> tbl,
     isError |-> emb # Null /\ DimensionError(tbl, Get(emb))]

\* part_015 lines 545-593: updateData holds the fields of the call only;
\* update of a note that is not there throws
StdioUpdateNote(tbl, id, title, content, emb) ==
    LET existing   == NoteOf(tbl, id)
        newTitle   == IF title # Null THEN title ELSE existing.title
        newContent == IF content # Null THEN content ELSE existing.content
    IN
    IF (title # Null \/ content # Null) /\ id \in NoteIds(tbl) /\ emb # Null
    THEN IF Get(emb).dim # ColumnDim
         THEN [notes |-> tbl, isError |-> TRUE]
         ELSE [notes |-> Rewrite(tbl, id,
                            [id |-> id, title |-> newTitle,
                             content |-> newContent,
                             tags |-> existing.tags, embedding |-> emb]),
               isError |-> FALSE]
    ELSE IF id \notin NoteIds(tbl)
    THEN [notes |-> tbl, isError |-> TRUE]
    ELSE [notes |-> Rewrite(tbl, id,
                       [existing EXCEPT
                           !.title = IF title # Null THEN title ELSE @,
                           !.content = IF content # Null THEN content ELSE @]),
          isError |-> FALSE]

\* part_015 lines 595-601
StdioDeleteNote(tbl, id) ==
    IF id \in NoteIds(tbl)
    THEN [notes |-> Remove(tbl, id), isError |-> FALSE]
    ELSE [notes |-> tbl, isError |-> TRUE]

\* part_015 lines 405-656: the call r of a tool, under configuration c,
\* when the embeddings request, if one is made, answers o
StdioCallTool(tbl, c, r, o) ==
    LET emb == StdioOutcome(c, o).value IN
    CASE r.op = "mcpCreate" -> StdioCreateNote(tbl, r.title, r.content, emb)
      [] r.op = "mcpSearch" -> StdioSearchNotes(tbl, emb)
      [] r.op = "mcpGet"    ->      \* part_015 lines 529-543
            [notes |-> tbl, isError |-> r.id \notin NoteIds(tbl)]
      [] r.op = "mcpUpdate" ->
            StdioUpdateNote(tbl, r.id, r.title, r.content, emb)
      [] r.op = "mcpDelete" -> StdioDeleteNote(tbl, r.id)
      [] r.op = "mcpList"   ->      \* part_015 lines 603-632
            [notes |-> tbl, isError |-> FALSE]

\* another client's tools/call update_note of the same note, served from
\* its read of the note to its write while the request in hand awaits its
\* embedding: keys/route.ts lines 383-425
ConcurrentUpdate(id, title, content, o) ==
    /\ req.op \in {"restUpdate", "mcpUpdate"}
    /\ req.pc # "idle"
    /\ id = req.id
    /\ id \in NoteIds(notes)
    /\ title # Null \/ content # Null
    /\ McpUpdateDone([Idle EXCEPT !.op = "mcpUpdate", !.id = id,
                                  !.title = title, !.content = content,
                                  !.calls = 1,
                                  !.exTitle = NoteOf(notes, id).title,
                                  !.exContent = NoteOf(notes, id).content,
                                  !.exTags = NoteOf(notes, id).tags],
                     McpOutcome(cfg, o).value, o.kind)
    /\ UNCHANGED <<authVars, cfg, provider, constructed, calls, modelPulled, req>>

\* DELETE /api/notes/[id]
RestDelete(id) ==
    /\ req.op = "idle"
    /\ LET r == [Idle EXCEPT !.op = "restDelete", !.id = id]
       IN IF id \notin NoteIds(notes)
          THEN /\ resp' = [Answer(r, Null, "none") EXCEPT !.status = 404]
               /\ notes' = notes
          ELSE /\ resp' = [Answer(r, Null, "none") EXCEPT !.status = 200]
               /\ notes' = Remove(notes, id)
    /\ UNCHANGED <<authVars, cfg, provider, constructed, calls, modelPulled, req>>

\* graph/route.ts lines 89-94: the stats of the response
GraphStats(candidates, connectedNodes, edges, threshold) ==
    [totalNotes     |-> Len(candidates),
     connectedNotes |-> Len(connectedNodes),
     connections    |-> Len(edges),
     threshold      |-> threshold]

\* GET /api/graph
Graph(threshold, limit) ==
    /\ req.op = "idle"
    /\ LET candidates == MostRecent(notes, limit) IN
       \E edges \in GraphEdges(notes, threshold) :
          resp' = [NoResp EXCEPT
                      !.op = "graph", !.status = 200, !.limit = limit,
                      !.threshold = threshold, !.edges = edges,
                      !.nodes = ConnectedNodes(candidates, edges),
                      !.total = Len(candidates),
                      !.stats = GraphStats(candidates,
                                    ConnectedNodes(candidates, edges),
                                    edges, threshold)]
    /\ UNCHANGED <<authVars, cfg, provider, constructed, calls, modelPulled, notes, req>>

-----------------------------------------------------------------------------
(* Specifications *)

\* the notes of the tables that searches start from: notes of any title and
\* content without embedding, and notes with an embedding
CorpusEmbeddings ==
    {Some([dim |-> ColumnDim, v |-> v]) : v \in {<<1, 0>>, <<3, 4>>}}

NoteBodies ==
    [title : Titles, content : Contents, tags : {<<>>}, embedding : {Null}]
        \cup [title : {<<"A", "b">>}, content : {<<"B">>}, tags : {<<>>},
              embedding : CorpusEmbeddings]

WithId(body, id) ==
    [id |-> id, title |-> body.title, content |-> body.content,
     tags |-> body.tags, embedding |-> body.embedding]

\* tables of up to MaxCorpus notes of any title, content and embedding
SearchCorpora ==
    UNION { { [i \in 1..n |-> WithId(f[i], i)] : f \in [1..n -> NoteBodies] } :
            n \in 0..MaxCorpus }

\* the embeddings of the notes of the tables that graphs start from
GraphEmbeddings ==
    {Null} \cup {Some([dim |-> ColumnDim, v |-> v]) :
                    v \in {<<1, 0>>, <<3, 4>>, <<4, 3>>}}

\* tables of notes of any identifiers, in any order of update, with or
\* without embedding; the graph does not read title and content
GraphCorpora ==
    UNION { { [i \in 1..n |->
                 [id |-> ids[i], title |-> <<"b">>, content |-> <<"B">>,
                  tags |-> <<>>, embedding |-> e[i]]] :
              ids \in {f \in [1..n -> Ids] :
                         \A i, j \in 1..n : i # j => f[i] # f[j]},
              e \in [1..n -> GraphEmbeddings] } :
            n \in 0..MaxNotes }

\* tables of notes 1..n, oldest first, each with or without embedding
ReadCorpora ==
    UNION { { [i \in 1..n |->
                 [id |-> i, title |-> <<"A", "b">>, content |-> <<"B">>,
                  tags |-> <<>>, embedding |-> e[i]]] :
              e \in [1..n -> {Null} \cup CorpusEmbeddings] } :
            n \in 0..MaxNotes }

\* the process after its modules are loaded
Loaded ==
    /\ cfg \in Configs
    /\ provider = NoProvider
    /\ modelPulled = FALSE
    /\ req = Idle
    /\ resp = NoResp
    /\ constructed = 0
    /\ calls = [c \in Callers |-> NoCall]
    /\ rateLimitStore = [i \in Identifiers |-> Null]
    /\ clock = 0
    /\ log = <<>>

\* authentication required, keys that do not expire
Started ==
    /\ Loaded
    /\ env = [authRequired |-> TRUE, internalToken |-> FALSE]
    /\ apiKeys = [k \in KeyIds |->
                     [isActive |-> TRUE, expiresAt |-> Null,
                      lastUsedAt |-> Null]]

InitRate == Started /\ cfg.provider = "ollama" /\ notes = <<>>

\* every environment of lib/auth; the api_keys tables after the keys were
\* created, with and without expiry
InitAuth ==
    /\ Loaded
    /\ cfg.provider = "ollama"
    /\ notes = <<>>
    /\ env \in [authRequired : BOOLEAN, internalToken : BOOLEAN]
    /\ apiKeys \in [KeyIds -> [isActive : {TRUE},
                               expiresAt : {Null, Some(1)},
                               lastUsedAt : {Null}]]

Init == Started /\ notes = <<>>

\* titles and contents with and without a secret, in them or across them
SecretTitles == {<<"a">>, <<"b">>}

SecretContents == {<<"B">>, <<"b", "B">>, <<"a", "\n", "b", "b", "B">>}

\* the empty table, and the tables of one note, with or without a secret
\* in it (a note stored with allowSecrets), with or without embedding
SecretCorpora ==
    {<<>>} \cup
    { <<[id |-> 1, title |-> t, content |-> c, tags |-> <<>>,
         embedding |-> e]>> :
        t \in SecretTitles, c \in SecretContents,
        e \in {Null, Some([dim |-> ColumnDim, v |-> <<1, 0>>])} }

InitSecrets == Started /\ cfg.provider = "ollama" /\ notes \in SecretCorpora

InitMcp == Started /\ notes \in ReadCorpora

InitTags == Started /\ cfg.provider = "ollama" /\ notes \in ReadCorpora

InitSearch == Started /\ notes \in SearchCorpora

InitGraph == Started /\ cfg.provider = "ollama" /\ notes \in GraphCorpora

InitRead == Started /\ cfg.provider = "ollama" /\ notes \in ReadCorpora

\* the steps of generateEmbedding of lib/embeddings
LibSteps ==
    \/ \E o \in {"hasModel", "noModel", "notOk", "netError"} : TagsRespond(o)
    \/ PullRespond
    \/ \E o \in Answers : EmbedRespond(o)
    \/ EmbedTimeout

ProviderSteps ==
    \/ LibSteps
    \/ \E o \in Answers : McpFetchRespond(o)

Searches ==
    \/ \E q \in Queries, l \in Limits, t \in Thresholds : RestSearch(q, l, t)
    \/ \E q \in Queries, l \in Limits : McpSearch(q, l)

Graphs == \E t \in Thresholds, l \in Limits : Graph(t, l)

Writes ==
    \/ \E t \in Titles, c \in Contents : RestCreate(t, c)
    \/ \E t \in Titles, c \in Contents : McpCreate(t, c)
    \/ \E id \in Ids, t \in Titles \cup {Null}, c \in Contents \cup {Null} :
          RestUpdate(id, t, c)
    \/ \E id \in Ids, t \in Titles \cup {Null}, c \in Contents \cup {Null} :
          McpUpdate(id, t, c)
    \/ \E id \in Ids : RestDelete(id)

\* the writes that ask for an embedding, of one title and one content
Stores ==
    \/ RestCreate(<<"b">>, <<"B">>)
    \/ McpCreate(<<"b">>, <<"B">>)
    \/ \E id \in Ids : RestUpdate(id, <<"A", "b">>, Null)
    \/ \E id \in Ids : McpUpdate(id, Null, <<"b", "A">>)
    \/ \E id \in Ids : RestDelete(id)

\* the elements of the array of an import: null, a note, a note that
\* holds a secret
ImportItems ==
    {Null, Some([title |-> <<"b">>, content |-> <<"B">>]),
     Some([title |-> <<"a">>, content |-> <<"b", "b", "B">>])}

\* tags with and without a parent added to a note, and the tags of a note
\* replaced
Tagging ==
    \/ \E id \in Ids,
          t \in {<<"a">>, <<"a", "/", "b">>, <<"b", "/", "a", "/", "b">>} :
          addTagToNote(id, t)
    \/ \E id \in Ids, ts \in {<<>>, <<<<"a">>>>, <<<<"b">>, <<"a">>>>} :
          RestPutTags(id, ts)

\* requests to routes with every kind of credentials (no key, a key of no
\* row, the key of a row), and revocations
AuthSteps(routes) ==
    \/ \E route \in routes, key \in {NoKey} \cup (0..MaxKeys),
          token \in BOOLEAN : Api(route, key, token)
    \/ \E id \in 0..MaxKeys, admin \in BOOLEAN : RevokeKey(id, admin)
    \/ Tick

RateSteps ==
    \/ \E i \in Identifiers : RateCheck(i)
    \/ Tick

Next == Searches \/ Graphs \/ Writes \/ ProviderSteps

\* one import into the table
NextImport ==
    \/ /\ resp = NoResp
       /\ \E items \in UNION {[1..n -> ImportItems] : n \in 0..MaxImport},
             s \in BOOLEAN : Import(items, s)
    \/ resp = NoResp /\ ImportNext
    \/ LibSteps

\* one call of a tool over a table
NextMcp ==
    \/ /\ resp = NoResp /\ req = Idle
       /\ \/ McpCreate(<<"b">>, <<"B">>)
          \/ \E q \in Queries, l \in Limits : McpSearch(q, l)
          \/ \E id \in Ids : McpGet(id)
          \/ \E id \in Ids, t \in {<<"b">>, Null},
                c \in {<<"b", "A">>, Null} : McpUpdate(id, t, c)
          \/ \E id \in Ids : McpDelete(id)
          \/ \E l \in Limits : McpList(l)
    \/ \E o \in Answers : McpFetchRespond(o)

\* one REST write over a table, with the two flags of the secrets check
NextSecrets ==
    \/ /\ resp = NoResp /\ req = Idle
       /\ \/ \E t \in SecretTitles, c \in SecretContents, a, z \in BOOLEAN :
                RestCreateWith(t, c, a, z)
          \/ \E id \in Ids, t \in SecretTitles \cup {Null},
                c \in SecretContents \cup {Null}, a, z \in BOOLEAN :
                RestUpdateWith(id, t, c, a, z)
    \/ LibSteps

\* with updates of one note by two clients at a time
NextConcurrent ==
    \/ Stores
    \/ \E id \in Ids, t \in Titles \cup {Null}, c \in Contents \cup {Null},
          o \in Answers : ConcurrentUpdate(id, t, c, o)
    \/ ProviderSteps

NextSearch == Searches \/ ProviderSteps

NextWrite == Writes \/ ProviderSteps

NextStore == Stores \/ ProviderSteps

NextProvider ==
    \/ \E c \in Callers, fn \in SyncExports \cup AsyncExports : LibCall(c, fn)
    \/ \E c \in Callers, o \in {Resolved(Null), Rejected} : LibSettle(c, o)

\* the graph of a table, asked for once
NextGraph == resp = NoResp /\ Graphs

\* one search or one graph over a table
NextRead == (resp = NoResp /\ req = Idle /\ (Searches \/ Graphs)) \/ ProviderSteps

\* the whole program, from an empty table
Spec == Init /\ [][Next]_vars

\* searches over every table of up to MaxCorpus notes
SpecSearch == InitSearch /\ [][NextSearch]_vars

\* graphs over every table of up to MaxNotes notes
SpecGraph == InitGraph /\ [][NextGraph]_vars

\* graphs asked for again and again over an unchanged table
SpecGraphAgain == InitGraph /\ [][Graphs]_vars

\* searches and graphs over tables in which some notes have no embedding
SpecRead == InitRead /\ [][NextRead]_vars

\* the write paths, from an empty table
SpecWrite == Init /\ [][NextWrite]_vars

\* the exports of lib/embeddings called side by side, from a fresh process
SpecProvider == Init /\ [][NextProvider]_vars

\* the writes that store an embedding, from an empty table
SpecStore == Init /\ [][NextStore]_vars

\* the REST writes of texts that may hold a secret
SpecSecrets == InitSecrets /\ [][NextSecrets]_vars

\* the tools of the MCP endpoint over tables of notes with and without
\* embedding
SpecMcp == InitMcp /\ [][NextMcp]_vars

\* imports into an empty table
SpecImport == Init /\ [][NextImport]_vars

\* tags added to the notes of a table
SpecTags == InitTags /\ [][Tagging]_vars

\* requests that pass or fail authCheck
SpecAuth == InitAuth /\ [][AuthSteps(Routes)]_vars

\* the requests of a route as keys are revoked and expire
SpecKeys == InitAuth /\ [][AuthSteps({"POST /api/search"})]_vars

\* calls of checkRateLimit as time passes
SpecRateLimit == InitRate /\ [][RateSteps]_vars

\* two clients updating the one note of the table
SpecConcurrent == Init /\ [][NextConcurrent]_vars

-----------------------------------------------------------------------------
(* Properties *)

\* the configurations in which the embedding subsystem is disabled
Disabled(c) ==
    \/ c.provider \notin {"ollama", "openai"}
    \/ c.provider = "openai" /\ ~c.hasKey

\* the ways the embedding backend fails a call: non-success response,
\* network error, timeout
BackendFailures == {"notOk", "netError", "timeout"}

\* text contains q, letter case set aside
MatchesText(text, q) ==
    \E i \in 0..(Len(text) - Len(q)) :
        \A k \in 1..Len(q) : Lower(text[i + k]) = Lower(q[k])

MatchesNote(n, q) == MatchesText(n.title, q) \/ MatchesText(n.content, q)

ResultIds(r) == {r.results[k].id : k \in 1..Len(r.results)}

\* results are the first limit of the notes matching the query, most
\* recently updated first, each with similarity null
IsTextFallback(r) ==
    /\ r.status = 200
    /\ r.searchType = "text"
    /\ Len(r.results) =
           Min(r.limit, Cardinality({i \in 1..Len(notes) :
                                        MatchesNote(notes[i], r.query)}))
    /\ \A k \in 1..Len(r.results) :
          /\ r.results[k].id \in NoteIds(notes)
          /\ MatchesNote(NoteOf(notes, r.results[k].id), r.query)
          /\ r.results[k].similarity = Null
    /\ \A k, l \in 1..Len(r.results) :
          k < l => Position(notes, r.results[k].id)
                       > Position(notes, r.results[l].id)
    /\ \A i \in 1..Len(notes) :
          (MatchesNote(notes[i], r.query) /\ notes[i].id \notin ResultIds(r))
              => \A k \in 1..Len(r.results) :
                    Position(notes, r.results[k].id) > i

\* C1: when embeddings are enabled and embedding the query fails, search
\* answers with the lexical fallback results (case-insensitive substring
\* matches, similarity null), never with an error
C1_FailedQueryEmbeddingFallsBack ==
    (/\ resp.op \in {"restSearch", "mcpSearch"}
     /\ resp.fault \in BackendFailures)
        => IsTextFallback(resp)

\* C2: a semantic search returns at most limit results, each of similarity
\* strictly greater than the threshold, in non-increasing order of similarity
C2_SemanticResultsBounded ==
    (resp.op \in {"restSearch", "mcpSearch"} /\ resp.searchType = "semantic")
        => /\ Len(resp.results) <= resp.limit
           /\ \A k \in 1..Len(resp.results) :
                 Get(resp.results[k].similarity) > resp.threshold
           /\ \A k, l \in 1..Len(resp.results) :
                 k < l => Get(resp.results[k].similarity)
                              >= Get(resp.results[l].similarity)

\* C3: with the provider disabled, POST /api/search returns exactly the
\* notes whose title or content contains the query case-insensitively, most
\* recently updated first, at most limit of them, each with similarity null,
\* and calls no provider
C3_DisabledSearchIsLexical ==
    (resp.op = "restSearch" /\ Disabled(cfg))
        => /\ IsTextFallback(resp)
           /\ resp.calls = 0
           /\ resp.fault = "disabled"

\* a disabled search that returned two notes, the more recent one matching
\* by its content only and in another letter case than the query's
C3_Witness ==
    /\ resp.op = "restSearch"
    /\ Disabled(cfg)
    /\ Len(resp.results) = 2
    /\ ~MatchesText(NoteOf(notes, resp.results[1].id).title, resp.query)
    /\ ~Contains(NoteOf(notes, resp.results[1].id).content, resp.query)

\* C4: generateEmbedding never throws to its caller; a provider error, a
\* non-success response, a timeout and the disabled state make it return null
C4_EmbedNeverThrows ==
    (resp.op \in {"restSearch", "restCreate", "restUpdate"})
        => /\ ~resp.threw
           /\ (resp.fault \in BackendFailures \cup {"disabled"})
                  => resp.embedding = Null

\* a request during which the provider answered with a non-success response,
\* and one that ran into the timeout
C4_Witness ==
    /\ resp.op = "restSearch"
    /\ resp.fault \in {"notOk", "timeout"}
    /\ resp.embedding = Null

\* C5: a create or an update of an existing note succeeds and the note is
\* in the table afterwards, whatever the embedding backend does
C5_WritesSurviveEmbeddingBackend ==
    (resp.op \in {"restCreate", "mcpCreate", "restUpdate"} /\ resp.status # 404)
        => /\ resp.status \in {200, 201}
           /\ resp.id \in NoteIds(notes)

\* C6: every provider network call made during embed is time-bounded, so
\* that embed returns even if the provider never answers
C6_ProviderCallsTimeBounded ==
    (req.pc \in {"tags", "pull", "embed"}) => TimerArmed(req)

EdgeIds(e) == {e.source, e.target}

\* C7: every returned edge connects two notes of the candidate set, and both
\* its endpoints are in the returned node list
C7_EdgesWithinCandidates ==
    (resp.op = "graph")
        => \A k \in 1..Len(resp.edges) :
              /\ EdgeIds(resp.edges[k]) \subseteq Range(MostRecent(notes, resp.limit))
              /\ EdgeIds(resp.edges[k]) \subseteq Range(resp.nodes)

\* C8: every returned edge has source < target, and no two returned edges
\* have the same pair of endpoints in either order
C8_OneEdgePerPair ==
    (resp.op = "graph")
        => /\ \A k \in 1..Len(resp.edges) :
                 resp.edges[k].source < resp.edges[k].target
           /\ \A k, l \in 1..Len(resp.edges) :
                 k # l => EdgeIds(resp.edges[k]) # EdgeIds(resp.edges[l])

\* a graph of two edges, one of them between a note and a more recently
\* updated note of smaller identifier
C8_Witness ==
    /\ resp.op = "graph"
    /\ Len(resp.edges) = 2
    /\ \E k \in 1..2 :
          Position(notes, resp.edges[k].source)
              > Position(notes, resp.edges[k].target)

\* C9: every returned node is an endpoint of a returned edge
C9_NoIsolatedNode ==
    (resp.op = "graph")
        => \A i \in 1..Len(resp.nodes) :
              \E k \in 1..Len(resp.edges) :
                 resp.nodes[i] \in EdgeIds(resp.edges[k])

\* a graph that returns nodes and leaves out a candidate without edge
C9_Witness ==
    /\ resp.op = "graph"
    /\ Len(resp.nodes) >= 1
    /\ \E id \in Range(MostRecent(notes, resp.limit)) :
          id \notin Range(resp.nodes)

\* the similarity of two stored notes that both have an embedding
StoredSimilarity(a, b) ==
    Similarity(Get(NoteOf(notes, a).embedding).v,
               Get(NoteOf(notes, b).embedding).v)

\* the pairs of notes that qualify for an edge
Qualifying(threshold) ==
    { pr \in NoteIds(notes) \X NoteIds(notes) :
        /\ pr[1] < pr[2]
        /\ NoteOf(notes, pr[1]).embedding # Null
        /\ NoteOf(notes, pr[2]).embedding # Null
        /\ StoredSimilarity(pr[1], pr[2]) > threshold }

\* C10: every returned edge has similarity above the threshold; at most
\* EdgeCap edges are returned, in non-increasing order of similarity, and no
\* qualifying pair left out is more similar than a returned edge
C10_EdgesAboveThresholdCapped ==
    (resp.op = "graph")
        => /\ Len(resp.edges) <= EdgeCap
           /\ \A k \in 1..Len(resp.edges) :
                 /\ resp.edges[k].similarity > resp.threshold
                 /\ resp.edges[k].similarity
                        = StoredSimilarity(resp.edges[k].source,
                                           resp.edges[k].target)
           /\ \A k, l \in 1..Len(resp.edges) :
                 k < l => resp.edges[k].similarity >= resp.edges[l].similarity
           /\ \A pr \in Qualifying(resp.threshold) :
                 (\A k \in 1..Len(resp.edges) :
                     <<resp.edges[k].source, resp.edges[k].target>> # pr)
                    => \A k \in 1..Len(resp.edges) :
                          StoredSimilarity(pr[1], pr[2])
                              <= resp.edges[k].similarity

\* a graph cut at the cap: more pairs qualify than are returned, and a pair
\* left out is strictly less similar than the last returned edge
C10_Witness ==
    /\ resp.op = "graph"
    /\ Len(resp.edges) = EdgeCap
    /\ Cardinality(Qualifying(resp.threshold)) > EdgeCap
    /\ \E pr \in Qualifying(resp.threshold) :
          StoredSimilarity(pr[1], pr[2]) < resp.edges[EdgeCap].similarity

-----------------------------------------------------------------------------
(* Stats, determinism and notes without embedding *)

\* the notes that the returned edges touch
Touched(edges) == UNION {EdgeIds(edges[k]) : k \in 1..Len(edges)}

\* C11: stats.totalNotes is the number of candidates (at most nodeLimit),
\* stats.connectedNotes is both the number of returned nodes and the number
\* of distinct notes touched by the returned edges, stats.connections is the
\* number of returned edges and stats.threshold is the requested threshold
C11_StatsDescribeGraph ==
    (resp.op = "graph")
        => /\ resp.stats.totalNotes = Len(MostRecent(notes, resp.limit))
           /\ resp.stats.totalNotes <= resp.limit
           /\ resp.stats.connectedNotes = Len(resp.nodes)
           /\ resp.stats.connectedNotes = Cardinality(Touched(resp.edges))
           /\ resp.stats.connections = Len(resp.edges)
           /\ resp.stats.threshold = resp.threshold

\* C12: two graph calls with the same threshold and nodeLimit over an
\* unchanged table return the same set of edges
C12_GraphDeterministic ==
    [][(/\ resp.op = "graph"
        /\ resp'.op = "graph"
        /\ notes' = notes
        /\ resp'.threshold = resp.threshold
        /\ resp'.limit = resp.limit)
           => Range(resp'.edges) = Range(resp.edges)]_vars

\* C13: a note whose stored embedding is null is in no semantic search
\* result, and is neither a node nor an edge endpoint of a graph
C13_NullEmbeddingExcluded ==
    /\ (resp.searchType = "semantic")
           => \A k \in 1..Len(resp.results) :
                 NoteOf(notes, resp.results[k].id).embedding # Null
    /\ (resp.op = "graph")
           => \A id \in Range(resp.nodes) \cup Touched(resp.edges) :
                 NoteOf(notes, id).embedding # Null

\* a graph with nodes, over a table whose most recently updated note is a
\* candidate and has no embedding
C13_Witness ==
    /\ resp.op = "graph"
    /\ Len(resp.nodes) >= 1
    /\ \E id \in Range(MostRecent(notes, resp.limit)) :
          NoteOf(notes, id).embedding = Null

-----------------------------------------------------------------------------
(* Updates, disabled mode, truncation, dimensions *)

Updates == {"restUpdate", "mcpUpdate"}

Creates == {"restCreate", "mcpCreate"}

\* C14: an update that supplies a title or a content asks for the embedding
\* of the new title and content and, when that gives an embedding, stores
\* it together with the new fields; an update that supplies neither (tags
\* only) calls no provider and leaves the stored embedding as it was
C14_UpdateRegeneratesEmbedding ==
    [][(resp'.op \in Updates /\ resp'.status # 404 /\ req'.op = "idle")
          => IF resp'.title = Null /\ resp'.content = Null
             THEN /\ resp'.calls = 0
                  /\ resp'.id \in NoteIds(notes')
                  /\ NoteOf(notes', resp'.id).embedding
                         = NoteOf(notes, resp'.id).embedding
             ELSE /\ resp'.fault # "none"
                  /\ (resp'.calls > 0)
                        => req.text =
                             (IF resp'.title # Null THEN resp'.title
                              ELSE NoteOf(notes, resp'.id).title)
                             \o <<"\n", "\n">>
                             \o (IF resp'.content # Null THEN resp'.content
                                 ELSE NoteOf(notes, resp'.id).content)
                  /\ (resp'.embedding # Null)
                        => /\ NoteOf(notes', resp'.id).embedding
                                 = resp'.embedding
                           /\ (resp'.title # Null)
                                 => NoteOf(notes', resp'.id).title
                                        = resp'.title
                           /\ (resp'.content # Null)
                                 => NoteOf(notes', resp'.id).content
                                        = resp'.content]_vars

\* C15: while the embedding subsystem is disabled, a note created through
\* any write path is stored with embedding null and no embedding backend is
\* called
C15_DisabledCreatesStoreNull ==
    (resp.op \in Creates /\ Disabled(cfg) /\ resp.status = 201)
        => /\ NoteOf(notes, resp.id).embedding = Null
           /\ resp.calls = 0

\* C18: the text sent to the provider by generateEmbedding is the input when
\* it has at most maxChars characters, and its first maxChars characters
\* otherwise
C18_ProviderInputTruncated ==
    (req.pc = "embed")
        => /\ Len(req.prompt) <= maxChars
           /\ req.prompt = Take(req.text, maxChars)

\* the provider, with its declared dimensions, that produced the embedding
\* of the response of a write
Producer(r) ==
    IF r.op \in {"mcpCreate", "mcpUpdate"}
    THEN (IF cfg.provider = "openai" /\ cfg.hasKey THEN "openai" ELSE "ollama")
    ELSE provider

-----------------------------------------------------------------------------
(* Standing disabled mode, order of equal similarities *)

\* the response of a handler that called generateEmbedding of lib/embeddings
LibAnswered(r) ==
    r.op \in {"restSearch", "restCreate", "restUpdate"} /\ r.fault # "none"

C19_TiesByRecency ==
    (resp.op = "restSearch" /\ resp.searchType = "semantic")
        => \A k, l \in 1..Len(resp.results) :
              (k < l /\ resp.results[k].similarity = resp.results[l].similarity)
                  => Position(notes, resp.results[k].id)
                         > Position(notes, resp.results[l].id)

-----------------------------------------------------------------------------
(* One provider instance *)

\* C17: however the first calls of the exports of lib/embeddings
\* interleave, at most one provider instance is constructed, and every call
\* that got a provider got that one instance
C17_OneProviderInstance ==
    /\ constructed <= 1
    /\ (provider # NoProvider) => constructed = 1
    /\ \A c \in Callers : calls[c].used \in {0, 1}

\* two calls of different exports, both awaiting the provider, both made
\* before any call had returned
C17_Witness ==
    /\ \E c, d \in Callers :
          /\ calls[c].pc = "awaiting" /\ calls[d].pc = "awaiting"
          /\ calls[c].fn # calls[d].fn
          /\ calls[c].used = 1 /\ calls[d].used = 1
    /\ modelPulled = FALSE

-----------------------------------------------------------------------------
(* Reads leave the table alone; embeddings follow the text *)

Reads == {"restSearch", "mcpSearch", "graph"}

\* C21: no step of a search or of a graph call, a failing one included,
\* changes a row of the notes table or the order of the rows by updatedAt
C21_ReadsLeaveNotesUnchanged ==
    [][(req.op \in Reads \/ req'.op \in Reads \/ resp'.op \in Reads)
          => notes' = notes]_vars

\* a search that failed over a table that has a note with an embedding
C21_Witness ==
    /\ resp.op = "restSearch"
    /\ resp.status = 500
    /\ \E i \in 1..Len(notes) : notes[i].embedding # Null

\* the stored text of note i differs between the two tables
TextChanged(old, new, i) ==
    \/ NoteOf(old, i).title # NoteOf(new, i).title
    \/ NoteOf(old, i).content # NoteOf(new, i).content

\* C23: when an update persists a changed title or content while
\* generateEmbedding returned null, the note is stored without embedding,
\* so that no stored embedding is that of an older text
C23_EmbeddingFollowsText ==
    [][(/\ req.op \in Updates
        /\ resp'.op \in Updates
        /\ resp'.status = 200
        /\ resp'.embedding = Null
        /\ TextChanged(notes, notes', resp'.id))
          => NoteOf(notes', resp'.id).embedding = Null]_vars

\* C24: an update that completes leaves the stored title as it is when it
\* supplied no title, and the stored content as it is when it supplied no
\* content, also when another update of the note ran during its await
C24_UnsuppliedFieldsKept ==
    [][(/\ req.op \in Updates
        /\ req' = Idle
        /\ resp'.op = req.op
        /\ req.id \in NoteIds(notes))
          => /\ req.title = Null
                  => NoteOf(notes', req.id).title = NoteOf(notes, req.id).title
             /\ req.content = Null
                  => NoteOf(notes', req.id).content
                        = NoteOf(notes, req.id).content]_vars

\* text holds a keyword, then separators, then SecretMin characters of a value
HasSecret(text) ==
    \E i \in 1..Len(text), s \in 1..Len(text) :
        /\ i + s + SecretMin <= Len(text)
        /\ text[i] \in {"a", "A"}
        /\ \A m \in (i + 1)..(i + s) : text[m] = "\n"
        /\ \A m \in (i + s + 1)..(i + s + SecretMin) : text[m] # "\n"

\* the title and the content that request r of a REST write results in
Resulting(r, table) ==
    (IF r.title # Null THEN r.title ELSE NoteOf(table, r.id).title)
        \o <<"\n">>
        \o (IF r.content # Null THEN r.content ELSE NoteOf(table, r.id).content)

\* C27: a POST /api/notes, or a PUT /api/notes/[id] of a note of the table,
\* whose resulting title and content hold a secret and that sets neither
\* allowSecrets nor sanitizeSecrets is answered 422 at once: the table is
\* left as it is and the embedding subsystem is not called
C27_SecretsRejected ==
    [][LET r == IF req' # Idle THEN req' ELSE resp' IN
       (/\ req = Idle
        /\ r.op \in {"restCreate", "restUpdate"}
        /\ ~r.allowSecrets /\ ~r.sanitizeSecrets
        /\ r.op = "restUpdate" => r.id \in NoteIds(notes)
        /\ HasSecret(Resulting(r, notes)))
          => /\ resp'.status = 422
             /\ notes' = notes
             /\ req' = Idle
             /\ resp'.calls = 0
             /\ provider' = provider /\ constructed' = constructed]_vars

\* an update with a secret was refused over a note that has an embedding
C27_Witness ==
    /\ resp.op = "restUpdate"
    /\ resp.status = 422
    /\ resp.id \in NoteIds(notes)
    /\ NoteOf(notes, resp.id).embedding # Null

McpTools ==
    {"mcpCreate", "mcpSearch", "mcpGet", "mcpUpdate", "mcpDelete", "mcpList"}

\* what the embeddings request of the call answered r gave
BackendOf(r) ==
    [kind |-> r.fault,
     v    |-> IF r.embedding # Null THEN Get(r.embedding).v ELSE <<0, 0>>]

C29_ImportCountsAddUp ==
    resp.op = "import"
        => /\ resp.status = 200
           /\ resp.imported + resp.skipped + resp.failed = resp.total
           /\ resp.errors = resp.skipped + resp.failed

\* the tag and its ancestors: what precedes each of its slashes, and all of it
AncestorsAndSelf(tag) ==
    {SubSeq(tag, 1, i - 1) : i \in {j \in 1..Len(tag) : tag[j] = "/"}}
        \cup {tag}

TagsOf(tbl, id) == Range(NoteOf(tbl, id).tags)

\* C30: addTagToNote of a note of the table returns success, after which
\* the note has the tag, every ancestor of the tag and the tags it had, and
\* its title, content and embedding are as they were
C30_TagAndParentsAdded ==
    [][(resp'.op = "addTagToNote" /\ resp'.id \in NoteIds(notes))
          => /\ resp'.success
             /\ AncestorsAndSelf(resp'.tag) \subseteq TagsOf(notes', resp'.id)
             /\ TagsOf(notes, resp'.id) \subseteq TagsOf(notes', resp'.id)
             /\ NoteOf(notes', resp'.id).title = NoteOf(notes, resp'.id).title
             /\ NoteOf(notes', resp'.id).content
                    = NoteOf(notes, resp'.id).content
             /\ NoteOf(notes', resp'.id).embedding
                    = NoteOf(notes, resp'.id).embedding]_vars

\* the key of row k has expired at time now
Expired(keys, k, now) ==
    keys[k].expiresAt # Null /\ Get(keys[k].expiresAt) < now

\* the request carries the internal token that is configured, or the key of
\* a row that is active and has not expired
ValidCredentials(e, keys, now, key, token) ==
    \/ e.internalToken /\ token
    \/ key \in KeyIds /\ keys[key].isActive /\ ~Expired(keys, key, now)

\* C22: with API_AUTH_REQUIRED other than 'false', a request to an
\* operation that reads or writes notes, the tools/call and resources/read
\* of the MCP endpoint included, is served only if it carries the internal
\* token or a valid, active, unexpired key
C22_EveryOperationAuthenticated ==
    [][(/\ env.authRequired
        /\ resp'.op \in Routes
        /\ clock' = clock
        /\ resp'.status = 200)
          => ValidCredentials(env, apiKeys, clock, resp'.key, resp'.token)]_vars

\* the step is an authCheck of a request that presents, without the
\* internal token, a key that is revoked or has expired
RejectedKeyPresented ==
    /\ resp'.op \in Routes
    /\ Guarded(resp'.op)
    /\ clock' = clock
    /\ resp'.key \in KeyIds
    /\ ~resp'.token
    /\ ~apiKeys[resp'.key].isActive \/ Expired(apiKeys, resp'.key, clock)

\* C26: an authCheck that is presented a revoked or expired key, and no
\* internal token, does not authenticate and leaves the key's lastUsedAt
C26_RevokedKeyRejected ==
    [][RejectedKeyPresented
          => /\ resp'.status # 200
             /\ apiKeys'[resp'.key].lastUsedAt
                    = apiKeys[resp'.key].lastUsedAt]_vars

\* C26, amended: when API authentication is enabled, an authCheck that is
\* presented a revoked or expired key, and no internal token, does not
\* authenticate and leaves the key's lastUsedAt
C26_RevokedKeyRejectedWhenRequired ==
    [][(env.authRequired /\ RejectedKeyPresented)
          => /\ resp'.status # 200
             /\ apiKeys'[resp'.key].lastUsedAt
                    = apiKeys[resp'.key].lastUsedAt]_vars

\* a key that was used and then revoked has been refused
C26_Witness ==
    /\ env.authRequired
    /\ resp.op \in Routes
    /\ resp.status = 401
    /\ resp.key \in KeyIds
    /\ ~resp.token
    /\ ~apiKeys[resp.key].isActive
    /\ apiKeys[resp.key].lastUsedAt # Null

\* the entries of the log, up to entry k, of the identifier of entry k
EarlierOf(lg, k) == {j \in 1..(k - 1) : lg[j].identifier = lg[k].identifier}

\* the time at which the window of entry k of the log started: that of the
\* call itself if it is the first of its identifier or if the window of the
\* call before it had expired, the start of that window otherwise
RECURSIVE WindowStart(_, _)
WindowStart(lg, k) ==
    IF EarlierOf(lg, k) = {} THEN lg[k].at
    ELSE LET j == CHOOSE j \in EarlierOf(lg, k) :
                    \A i \in EarlierOf(lg, k) : i <= j
         IN IF lg[k].at > WindowStart(lg, j) + RATE_LIMIT_WINDOW
            THEN lg[k].at
            ELSE WindowStart(lg, j)

\* the number of calls of the window of entry k, entry k included
CallsInWindow(lg, k) ==
    Cardinality({j \in EarlierOf(lg, k) :
                    WindowStart(lg, j) = WindowStart(lg, k)}) + 1

\* C25: of the calls of checkRateLimit for an identifier within a window,
\* the first RATE_LIMIT_MAX are allowed and no other; the others return
\* remaining 0 and leave the store as it is; the first call after resetAt
\* starts a window and is allowed
C25_RateLimited ==
    [][log' # log
          => LET k == Len(log') IN
             /\ log'[k].allowed = (CallsInWindow(log', k) <= RATE_LIMIT_MAX)
             /\ ~log'[k].allowed
                  => log'[k].remaining = 0 /\ rateLimitStore' = rateLimitStore
             /\ CallsInWindow(log', k) = 1 => log'[k].allowed]_vars

\* a call was refused, and a later call of the identifier, after the window
\* expired, was allowed
C25_Witness ==
    \E j, k \in 1..Len(log) :
        /\ j < k
        /\ log[j].identifier = log[k].identifier
        /\ ~log[j].allowed
        /\ log[k].allowed

====
